---- MODULE Spec2Model ----
(***************************************************************************)
(* Model of src/src/viz_utils.py: the trajectory/point overlay renderer    *)
(* plot_trajs_and_points, the mask compositor mask_to_img and the          *)
(* diagnostic panel logger visualize_sam_maps.                             *)
(*                                                                         *)
(* Lists whose elements the code never inspects (colours, labels, alphas,  *)
(* points) are represented by their lengths; an Optional list is a record  *)
(* [given, len] with given = FALSE for None.  A raised exception is a      *)
(* record [type, line]: the exception class and the source line raising it.*)
(***************************************************************************)
EXTENDS Integers, Sequences, FiniteSets, TLC

VARIABLES
    module_globals, \* free names of viz_utils.py that are bound at call time
    args,           \* arguments of the running call
    ax,             \* drawing operations applied to the supplied surface
    pc,             \* position of the running call
    i,              \* loop index of the running call
    exc,            \* exception the call raised (NoExc while none)
    sorted_anns,    \* mask_to_img: the masks sorted by area, largest first
    mask_img,       \* mask_to_img: the array bound to the local mask_img
    drawn,          \* mask_to_img: the colours np.random.random returned so far
    batch,          \* lengths of the ambient batch_viz_obs_images / _goal_images
    wandb_list,     \* visualize_sam_maps: the local list of logged images
    io              \* visualize_sam_maps: its effects outside the function

vars == <<module_globals, args, ax, pc, i, exc, sorted_anns, mask_img, drawn,
          batch, wandb_list, io>>

\* The variables only mask_to_img writes, and those only visualize_sam_maps
\* writes.
maskVars == <<sorted_anns, mask_img, drawn>>

samVars == <<batch, wandb_list, io>>

---------------------------------------------------------------------------
\* Bounds of the model

MaxTrajs == 2
MaxPoints == 1
Horizon == 3
MaxFreq == 2
MaxMasks == 2
MaxBatch == 4
MaxVizFreq == 3
MaxPixels == 2
\* The side cv2.resize scales the canvas to: 256 in the source (line 138),
\* scaled down here so that the arrays can be enumerated.
ResizeTo == 3

---------------------------------------------------------------------------
\* Python helpers

NoExc == [type |-> "none", line |-> 0]

Raise(type, line) == [type |-> type, line |-> line]

\* An Optional[list] argument: None, or a list of the given length.
NoneList == [given |-> FALSE, len |-> 0]

OptList(max) == {NoneList} \cup [given : {TRUE}, len : 0..max]

\* All sequences over S of length 0..n.
SeqUpTo(S, n) == UNION {[1..k -> S] : k \in 0..n}

\* seq[i] raises IndexError unless 0 <= i < len(seq).
InRange(idx, len) == 0 <= idx /\ idx < len

\* A C-contiguous array: its shape, its elements in row-major order and its
\* element type.
Array(shape, data, dtype) == [shape |-> shape, data |-> data, dtype |-> dtype]

NoArray == Array(<<>>, <<>>, "none")

\* The ambient batch while its names are unbound.
NoBatch == [obs |-> 0, goal |-> 0]

\* viz_utils.py reads the names gen_bearings_from_waypoints, to_numpy,
\* batch_viz_obs_images and batch_viz_goal_images but neither imports nor
\* defines them (lines 1-14 bind torch, cv2, np, plt, wandb, os, Optional and
\* the six colours only).  A global name lookup succeeds only if the name is
\* bound in the module namespace when the line runs; otherwise Python raises
\* NameError.
IsBound(name) == name \in module_globals

---------------------------------------------------------------------------
\* plot_trajs_and_points (lines 18-118)

\* A trajectory is a numpy array of shape (horizon, 2) or (horizon, 4); every
\* trajectory of the model has Horizon waypoints.
Trajectory == [ncomp : {2, 4}, horizon : {Horizon}]

PlotArgs ==
    [list_trajs : SeqUpTo(Trajectory, MaxTrajs),
     list_points : 0..MaxPoints,
     traj_colors : 0..MaxTrajs,
     point_colors : 0..(MaxPoints + 1),
     traj_labels : OptList(MaxTrajs),
     point_labels : OptList(MaxPoints),
     traj_alphas : OptList(MaxTrajs),
     point_alphas : OptList(MaxPoints),
     quiver_freq : 0..MaxFreq,
     default_coloring : BOOLEAN]

\* FailedAssert without the trajectory-colour assert of line 48.
FailedAssert_NoTrajColorCheck(a) ==
    IF ~(a.list_points <= a.point_colors) THEN 51
    ELSE IF ~(~a.traj_labels.given \/ Len(a.list_trajs) = a.traj_labels.len
              \/ a.default_coloring) THEN 52
    ELSE IF ~(~a.point_labels.given \/ a.list_points = a.point_labels.len) THEN 55
    ELSE 0

\* FailedAssert with the default_coloring exemption also on the point asserts.
FailedAssert_PointsExempt(a) ==
    IF ~(Len(a.list_trajs) <= a.traj_colors \/ a.default_coloring) THEN 48
    ELSE IF ~(a.list_points <= a.point_colors \/ a.default_coloring) THEN 51
    ELSE IF ~(~a.traj_labels.given \/ Len(a.list_trajs) = a.traj_labels.len
              \/ a.default_coloring) THEN 52
    ELSE IF ~(~a.point_labels.given \/ a.list_points = a.point_labels.len
              \/ a.default_coloring) THEN 55
    ELSE 0

\* Lines 48-55: the four asserts, in order; the line of the first that fails,
\* 0 when all pass.
FailedAssert(a) ==
    IF ~(Len(a.list_trajs) <= a.traj_colors \/ a.default_coloring) THEN 48
    ELSE IF ~(a.list_points <= a.point_colors) THEN 51
    ELSE IF ~(~a.traj_labels.given \/ Len(a.list_trajs) = a.traj_labels.len
              \/ a.default_coloring) THEN 52
    ELSE IF ~(~a.point_labels.given \/ a.list_points = a.point_labels.len) THEN 55
    ELSE 0

\* Where the call continues once the trajectory loop has handled index k - 1.
AfterTraj(a, k) ==
    IF k < Len(a.list_trajs) THEN "traj"
    ELSE IF a.list_points > 0 THEN "point"
    ELSE "legend"

\* Where the call continues once the point loop has handled index k - 1.
AfterPoint(a, k) == IF k < a.list_points THEN "point" ELSE "legend"

\* traj[::quiver_freq]: the indices 0, q, 2q, ... below the horizon.
Strided(horizon, q) ==
    [k \in 1..((horizon + q - 1) \div q) |-> (k - 1) * q]

\* The operations recorded on the surface.  scale is the colour's intensity
\* in halves (2: the colour itself, 1: the colour * 0.5).
PlotOp(kind, idx, labelled) ==
    [op |-> "plot", kind |-> kind, idx |-> idx, labelled |-> labelled,
     at |-> <<>>, scale |-> 2]

QuiverOp(idx, at) ==
    [op |-> "quiver", kind |-> "traj", idx |-> idx, labelled |-> FALSE,
     at |-> at, scale |-> 1]

SurfaceOp(name) ==
    [op |-> name, kind |-> "axes", idx |-> 0, labelled |-> FALSE,
     at |-> <<>>, scale |-> 2]

\* Lines 48-55.
CheckPreconditions ==
    /\ pc = "call"
    /\ IF FailedAssert(args) # 0
       THEN /\ pc' = "raised"
            /\ exc' = Raise("AssertionError", FailedAssert(args))
       ELSE /\ pc' = AfterTraj(args, 0)
            /\ exc' = exc
    /\ UNCHANGED <<module_globals, args, ax, i, maskVars, samVars>>

\* Lines 57-76: the keyword arguments of ax.plot are evaluated in order
\* (color, label, alpha) before the call; the first bad index raises.
TrajPlotError(a, k) ==
    IF ~InRange(k, a.traj_colors)
    THEN Raise("IndexError", IF a.traj_labels.given THEN 71 ELSE 62)
    ELSE IF a.traj_labels.given /\ ~InRange(k, a.traj_labels.len)
    THEN Raise("IndexError", 72)
    ELSE IF a.traj_alphas.given /\ ~InRange(k, a.traj_alphas.len)
    THEN Raise("IndexError", IF a.traj_labels.given THEN 73 ELSE 63)
    ELSE NoExc

PlotTraj ==
    /\ pc = "traj"
    /\ IF TrajPlotError(args, i) # NoExc
       THEN /\ pc' = "raised"
            /\ exc' = TrajPlotError(args, i)
            /\ ax' = ax
       ELSE /\ pc' = "quiver"
            /\ exc' = exc
            /\ ax' = Append(ax, PlotOp("traj", i, args.traj_labels.given))
    /\ UNCHANGED <<module_globals, args, i, maskVars, samVars>>

\* Line 81.
HasYaw(a, k) == a.list_trajs[k + 1].ncomp > 2 /\ a.quiver_freq > 0

\* Line 81 false: no heading indicator for this trajectory.
SkipQuiver ==
    /\ pc = "quiver"
    /\ ~HasYaw(args, i)
    /\ pc' = AfterTraj(args, i + 1)
    /\ i' = IF pc' = "traj" THEN i + 1 ELSE 0
    /\ UNCHANGED <<module_globals, args, ax, exc, maskVars, samVars>>

\* Line 82 with gen_bearings_from_waypoints unbound.
QuiverNameError ==
    /\ pc = "quiver"
    /\ HasYaw(args, i)
    /\ ~IsBound("gen_bearings_from_waypoints")
    /\ pc' = "raised"
    /\ exc' = Raise("NameError", 82)
    /\ UNCHANGED <<module_globals, args, ax, i, maskVars, samVars>>

\* Lines 82-90.
DrawQuiver ==
    /\ pc = "quiver"
    /\ HasYaw(args, i)
    /\ IsBound("gen_bearings_from_waypoints")
    /\ ax' = Append(ax, QuiverOp(i, Strided(args.list_trajs[i + 1].horizon,
                                            args.quiver_freq)))
    /\ pc' = AfterTraj(args, i + 1)
    /\ i' = IF pc' = "traj" THEN i + 1 ELSE 0
    /\ UNCHANGED <<module_globals, args, exc, maskVars, samVars>>

\* Lines 91-112: keyword order color, alpha, ..., label.
PointPlotError(a, k) ==
    IF ~InRange(k, a.point_colors)
    THEN Raise("IndexError", IF a.point_labels.given THEN 106 ELSE 96)
    ELSE IF a.point_alphas.given /\ ~InRange(k, a.point_alphas.len)
    THEN Raise("IndexError", IF a.point_labels.given THEN 107 ELSE 97)
    ELSE IF a.point_labels.given /\ ~InRange(k, a.point_labels.len)
    THEN Raise("IndexError", 110)
    ELSE NoExc

PlotPoint ==
    /\ pc = "point"
    /\ IF PointPlotError(args, i) # NoExc
       THEN /\ pc' = "raised"
            /\ exc' = PointPlotError(args, i)
            /\ ax' = ax
            /\ i' = i
       ELSE /\ pc' = AfterPoint(args, i + 1)
            /\ exc' = exc
            /\ ax' = Append(ax, PlotOp("point", i, args.point_labels.given))
            /\ i' = IF pc' = "point" THEN i + 1 ELSE 0
    /\ UNCHANGED <<module_globals, args, maskVars, samVars>>

\* WantsLegend requiring both label lists instead of either.
WantsLegend_Both(a) == a.traj_labels.given /\ a.point_labels.given

\* Line 115.
WantsLegend(a) == a.traj_labels.given \/ a.point_labels.given

\* Lines 115-118: the two legend calls when labels were supplied, then
\* set_aspect; the function returns None.
LegendAndAspect ==
    /\ pc = "legend"
    /\ ax' = (IF WantsLegend(args)
              THEN ax \o <<SurfaceOp("legend"), SurfaceOp("legend_below_ncol2")>>
              ELSE ax) \o <<SurfaceOp("set_aspect_equal_box")>>
    /\ pc' = "returned"
    /\ UNCHANGED <<module_globals, args, i, exc, maskVars, samVars>>

InitPlot ==
    /\ module_globals \in SUBSET {"gen_bearings_from_waypoints"}
    /\ args \in PlotArgs
    /\ ax = <<>>
    /\ pc = "call"
    /\ i = 0
    /\ exc = NoExc
    /\ sorted_anns = <<>>
    /\ mask_img = NoArray
    /\ drawn = <<>>
    /\ batch = NoBatch
    /\ wandb_list = <<>>
    /\ io = <<>>

NextPlot ==
    \/ CheckPreconditions
    \/ PlotTraj
    \/ SkipQuiver
    \/ QuiverNameError
    \/ DrawQuiver
    \/ PlotPoint
    \/ LegendAndAspect

SpecPlot == InitPlot /\ [][NextPlot]_vars

---------------------------------------------------------------------------
\* mask_to_img (lines 127-146)

\* Pixel values are fixed-point: One stands for 1.0, the value np.ones writes
\* (line 133); np.random.random (line 136) returns values in [0, 1).
One == 2

ChannelValues == 0..(One - 1)

\* The three colour channels (lines 133, 136).
Channels == 3

Colours == [1..Channels -> ChannelValues]

\* Number of elements of an array of the given shape.
RECURSIVE Size(_)
Size(shape) ==
    IF shape = <<>> THEN 1 ELSE Head(shape) * Size(Tail(shape))

\* The grids of the model: h x w with at most MaxPixels pixels.
GridShapes ==
    {sh \in (1..MaxPixels) \X (1..MaxPixels) : sh[1] * sh[2] <= MaxPixels}

\* A mask record as the segmentation model's generate returns it (line 124):
\* a boolean grid 'segmentation' of the given shape covering at least one
\* pixel, and 'area', the number of pixels the grid covers.
Masks(shape) ==
    {[area |-> Cardinality({k \in DOMAIN d : d[k]}),
      segmentation |-> Array(shape, d, "bool")] :
        d \in {g \in [1..Size(shape) -> BOOLEAN] : \E k \in DOMAIN g : g[k]}}

MaskArgs ==
    UNION {[masks : UNION {[1..n -> Masks(sh)] : n \in 1..MaxMasks}] :
              sh \in GridShapes}

\* sorted(..., reverse=False): ascending area.
Insert_Ascending(s, x) ==
    LET k == Cardinality({j \in 1..Len(s) : s[j].area <= x.area})
    IN  SubSeq(s, 1, k) \o <<x>> \o SubSeq(s, k + 1, Len(s))

\* One insertion of the stable descending sort: x goes behind every element
\* whose area is at least its own.
Insert(s, x) ==
    LET k == Cardinality({j \in 1..Len(s) : s[j].area >= x.area})
    IN  SubSeq(s, 1, k) \o <<x>> \o SubSeq(s, k + 1, Len(s))

\* Line 132: sorted(masks, key=area, reverse=True); Python's sort is stable,
\* also under reverse=True.
RECURSIVE Sorted(_)
Sorted(seq) ==
    IF seq = <<>> THEN <<>>
    ELSE Insert(Sorted(SubSeq(seq, 1, Len(seq) - 1)), seq[Len(seq)])

\* Line 133: np.ones(shape).
np_ones(shape) == Array(shape, [k \in 1..Size(shape) |-> One], "float64")

\* Line 136: img[m] = colour, for an (h, w, 3) image and an (h, w) grid.
SetMasked(img, m, colour) ==
    Array(img.shape,
          [k \in 1..Len(img.data) |->
              IF m.data[((k - 1) \div Channels) + 1]
              THEN colour[((k - 1) % Channels) + 1]
              ELSE img.data[k]],
          img.dtype)

\* cv2.resize's INTER_LINEAR taps for destination index x of dsize
\* destinations over ssize sources: the source position is
\* (x + 0.5) * ssize / dsize - 0.5; lo is its floor, w (in units of
\* 1 / (2 * dsize)) the weight of source lo + 1, and both ends are clamped.
Taps(x, ssize, dsize) ==
    LET n  == (2 * x + 1) * ssize - dsize
        lo == n \div (2 * dsize)
    IN  IF n < 0 THEN [lo |-> 0, hi |-> 0, w |-> 0]
        ELSE IF lo >= ssize - 1 THEN [lo |-> ssize - 1, hi |-> ssize - 1, w |-> 0]
        ELSE [lo |-> lo, hi |-> lo + 1, w |-> n - 2 * dsize * lo]

\* Element (r, c, ch) of an (h, w, 3) array, 0-based.
At3(a, r, c, ch) == a.data[(r * a.shape[2] + c) * a.shape[3] + ch + 1]

\* cv2.resize that leaves the image at its size.
cv2_resize_KeepSize(img, width, height) == img

\* Line 138: cv2.resize(img, (width, height)), bilinear.  The result has shape
\* (height, width, channels); its values are in units of
\* 1 / (4 * width * height) of the source's.
cv2_resize(img, width, height) ==
    LET h == img.shape[1]
        w == img.shape[2]
        n == img.shape[3]
        val(r, c, ch) ==
            LET ty == Taps(r, h, height)
                tx == Taps(c, w, width)
            IN    (2 * height - ty.w) * (2 * width - tx.w) * At3(img, ty.lo, tx.lo, ch)
                + (2 * height - ty.w) * tx.w * At3(img, ty.lo, tx.hi, ch)
                + ty.w * (2 * width - tx.w) * At3(img, ty.hi, tx.lo, ch)
                + ty.w * tx.w * At3(img, ty.hi, tx.hi, ch)
    IN  Array(<<height, width, n>>,
              [k \in 1..(height * width * n) |->
                  val((k - 1) \div (width * n), ((k - 1) \div n) % width,
                      (k - 1) % n)],
              img.dtype)

\* Line 139: np.resize(a, new_shape) flattens a and fills the new shape with
\* repeated copies of it in row-major order.
np_resize(a, new_shape) ==
    Array(new_shape,
          [k \in 1..Size(new_shape) |-> a.data[((k - 1) % Len(a.data)) + 1]],
          a.dtype)

\* Lines 141-142: torch.from_numpy(a).unsqueeze(0).to(torch.float32).
to_float32_batch(a) == Array(<<1>> \o a.shape, a.data, "float32")

\* Lines 132-133.
SortAndAllocate ==
    /\ pc = "call"
    /\ sorted_anns' = Sorted(args.masks)
    /\ mask_img' = np_ones(args.masks[1].segmentation.shape \o <<Channels>>)
    /\ pc' = "paint"
    /\ i' = 0
    /\ UNCHANGED <<module_globals, args, ax, exc, drawn, samVars>>

\* Lines 134-136, one iteration: a fresh random colour painted where the
\* mask's grid is true.
PaintMask ==
    /\ pc = "paint"
    /\ i < Len(sorted_anns)
    /\ \E colour \in Colours :
          /\ drawn' = Append(drawn, colour)
          /\ mask_img' = SetMasked(mask_img, sorted_anns[i + 1].segmentation, colour)
    /\ i' = i + 1
    /\ UNCHANGED <<module_globals, args, ax, exc, pc, sorted_anns, samVars>>

\* Line 138.
Resize ==
    /\ pc = "paint"
    /\ i = Len(sorted_anns)
    /\ mask_img' = cv2_resize(mask_img, ResizeTo, ResizeTo)
    /\ pc' = "resized"
    /\ UNCHANGED <<module_globals, args, ax, exc, i, sorted_anns, drawn, samVars>>

\* Line 139.
Reshape ==
    /\ pc = "resized"
    /\ mask_img' = np_resize(mask_img, <<mask_img.shape[3], mask_img.shape[1],
                                         mask_img.shape[2]>>)
    /\ pc' = "reshaped"
    /\ UNCHANGED <<module_globals, args, ax, exc, i, sorted_anns, drawn, samVars>>

\* Lines 141-146.
ToTensor ==
    /\ pc = "reshaped"
    /\ mask_img' = to_float32_batch(mask_img)
    /\ pc' = "returned"
    /\ UNCHANGED <<module_globals, args, ax, exc, i, sorted_anns, drawn, samVars>>

InitMask ==
    /\ module_globals = {}
    /\ args \in MaskArgs
    /\ ax = <<>>
    /\ pc = "call"
    /\ i = 0
    /\ exc = NoExc
    /\ sorted_anns = <<>>
    /\ mask_img = NoArray
    /\ drawn = <<>>
    /\ batch = NoBatch
    /\ wandb_list = <<>>
    /\ io = <<>>

NextMask ==
    \/ SortAndAllocate
    \/ PaintMask
    \/ Resize
    \/ Reshape
    \/ ToTensor

SpecMask == InitMask /\ [][NextMask]_vars

---------------------------------------------------------------------------
\* visualize_sam_maps (lines 149-220)

\* viz_obs and viz_goal are never read; obs_map and goal_map are lists of
\* masks, of which show_anns (lines 156-169) reads the length first.
SamArgs ==
    [obs_map : 0..MaxMasks, goal_map : 0..MaxMasks, viz_freq : 0..MaxVizFreq]

\* The ambient batches a host may bind in the module namespace before the
\* call; an unbound name has no length.
Batches ==
    {b \in [obs : 0..MaxBatch, goal : 0..MaxBatch] :
        /\ ~IsBound("batch_viz_obs_images") => b.obs = 0
        /\ ~IsBound("batch_viz_goal_images") => b.goal = 0}

\* Line 173: zip stops at the shorter of the two batches.
Pairs == IF batch.obs <= batch.goal THEN batch.obs ELSE batch.goal

\* An effect outside the function: a figure made, panels drawn, a file
\* written, a call of wandb.log, a line printed.
Effect(ev, idx, images, commit) ==
    [ev |-> ev, idx |-> idx, images |-> images, commit |-> commit]

\* Lines 171-173 with one of the two batch names unbound.
LoopNameError ==
    /\ pc = "call"
    /\ ~(IsBound("batch_viz_obs_images") /\ IsBound("batch_viz_goal_images"))
    /\ wandb_list' = <<>>
    /\ pc' = "raised"
    /\ exc' = Raise("NameError", 173)
    /\ UNCHANGED <<module_globals, args, ax, i, maskVars, batch, io>>

\* Lines 171-173.
EnterLoop ==
    /\ pc = "call"
    /\ IsBound("batch_viz_obs_images") /\ IsBound("batch_viz_goal_images")
    /\ wandb_list' = <<>>
    /\ i' = 0
    /\ pc' = "pair"
    /\ UNCHANGED <<module_globals, args, ax, exc, maskVars, batch, io>>

\* Line 173: the pairs are exhausted; the function returns None.
LoopExit ==
    /\ pc = "pair"
    /\ i >= Pairs
    /\ pc' = "returned"
    /\ UNCHANGED <<module_globals, args, ax, i, exc, maskVars, samVars>>

\* Line 174 with viz_freq = 0.
StrideZeroDivision ==
    /\ pc = "pair"
    /\ i < Pairs
    /\ args.viz_freq = 0
    /\ pc' = "raised"
    /\ exc' = Raise("ZeroDivisionError", 174)
    /\ UNCHANGED <<module_globals, args, ax, i, maskVars, samVars>>

\* Line 174: i % viz_freq == 0.
OnStride(k, freq) == k % freq = 0

\* Line 174 false: the pair is passed over.
SkipPair ==
    /\ pc = "pair"
    /\ i < Pairs
    /\ args.viz_freq # 0
    /\ ~OnStride(i, args.viz_freq)
    /\ i' = i + 1
    /\ UNCHANGED <<module_globals, args, ax, pc, exc, maskVars, samVars>>

\* Lines 174-175: plt.subplots(1, 4).
MakeFigure ==
    /\ pc = "pair"
    /\ i < Pairs
    /\ args.viz_freq # 0
    /\ OnStride(i, args.viz_freq)
    /\ io' = Append(io, Effect("subplots", i, <<>>, FALSE))
    /\ pc' = "convert"
    /\ UNCHANGED <<module_globals, args, ax, i, exc, maskVars, batch, wandb_list>>

\* Line 177 with to_numpy unbound.
ConvertNameError ==
    /\ pc = "convert"
    /\ ~IsBound("to_numpy")
    /\ pc' = "raised"
    /\ exc' = Raise("NameError", 177)
    /\ UNCHANGED <<module_globals, args, ax, i, maskVars, samVars>>

\* Lines 177-210: the four panels; show_anns draws an overlay unless its mask
\* list is empty (line 157).
DrawPanels ==
    /\ pc = "convert"
    /\ IsBound("to_numpy")
    /\ io' = Append(io, Effect("panels", i,
                           <<args.obs_map, args.goal_map>>, FALSE))
    /\ pc' = "save"
    /\ UNCHANGED <<module_globals, args, ax, i, exc, maskVars, batch, wandb_list>>

\* Lines 212-214: plt.savefig("examples/maps_<i>.png").
SaveFigure ==
    /\ pc = "save"
    /\ io' = Append(io, Effect("savefig", i, <<>>, FALSE))
    /\ pc' = "append"
    /\ UNCHANGED <<module_globals, args, ax, i, exc, maskVars, batch, wandb_list>>

\* Line 216.
AppendImage ==
    /\ pc = "append"
    /\ wandb_list' = Append(wandb_list, i)
    /\ pc' = "log"
    /\ UNCHANGED <<module_globals, args, ax, i, exc, maskVars, batch, io>>

\* Line 218: wandb.log({'examples': wandb_list}, commit=False).
LogImages ==
    /\ pc = "log"
    /\ io' = Append(io, Effect("log", i, wandb_list, FALSE))
    /\ pc' = "print"
    /\ UNCHANGED <<module_globals, args, ax, i, exc, maskVars, batch, wandb_list>>

\* Line 220, then the next pair.
PrintProgress ==
    /\ pc = "print"
    /\ io' = Append(io, Effect("print", i, <<>>, FALSE))
    /\ i' = i + 1
    /\ pc' = "pair"
    /\ UNCHANGED <<module_globals, args, ax, exc, maskVars, batch, wandb_list>>

InitSam ==
    /\ module_globals \in SUBSET {"to_numpy", "batch_viz_obs_images",
                                  "batch_viz_goal_images"}
    /\ args \in SamArgs
    /\ batch \in Batches
    /\ ax = <<>>
    /\ pc = "call"
    /\ i = 0
    /\ exc = NoExc
    /\ sorted_anns = <<>>
    /\ mask_img = NoArray
    /\ drawn = <<>>
    /\ wandb_list = <<>>
    /\ io = <<>>

NextSam ==
    \/ LoopNameError
    \/ EnterLoop
    \/ LoopExit
    \/ StrideZeroDivision
    \/ SkipPair
    \/ MakeFigure
    \/ ConvertNameError
    \/ DrawPanels
    \/ SaveFigure
    \/ AppendImage
    \/ LogImages
    \/ PrintProgress

SpecSam == InitSam /\ [][NextSam]_vars

---------------------------------------------------------------------------
\* Properties of plot_trajs_and_points

\* The call has ended, normally or by an exception.
Ended == pc \in {"returned", "raised"}

\* Positions of ax holding an operation of the given name.
OpsAt(name) == {k \in 1..Len(ax) : ax[k].op = name}

\* Positions of ax holding a drawing of a trajectory, a heading or a point.
DrawingsAt == OpsAt("plot") \cup OpsAt("quiver")

\* C1: with default_coloring = False and more trajectories than trajectory
\* colours, the call fails on the assert of line 48 and the surface has
\* received no operation.
C1_MismatchFailsBeforeDrawing ==
    (/\ pc # "call"
     /\ ~args.default_coloring
     /\ Len(args.list_trajs) > args.traj_colors)
    => (pc = "raised" /\ exc = Raise("AssertionError", 48) /\ ax = <<>>)

C1_Witness ==
    /\ pc = "raised"
    /\ ~args.default_coloring
    /\ Len(args.list_trajs) = 2
    /\ args.traj_colors = 1
    /\ exc.type = "AssertionError"
    /\ ax = <<>>

\* C3 (as claimed): every failure caused by a count mismatch between the
\* trajectories or points and their colours or labels (the asserts, or an
\* index into traj_colors, traj_labels, point_colors, point_labels) leaves the
\* surface without any operation.
MismatchLines == {48, 51, 52, 55, 62, 71, 72, 96, 106, 110}

C3_NoPartialRendering ==
    (pc = "raised" /\ exc.line \in MismatchLines) => ax = <<>>

\* C4: the call fails an assert whenever there are more points than point
\* colours, whenever point labels are supplied in another number than the
\* points, and whenever trajectory labels are supplied in another number than
\* the trajectories with default_coloring False; a failed assert under
\* default_coloring = True is one of the two point asserts.
C4_PreconditionChecks ==
    /\ (/\ pc # "call"
        /\ \/ args.list_points > args.point_colors
           \/ args.point_labels.given /\ args.point_labels.len # args.list_points
           \/ /\ args.traj_labels.given
              /\ args.traj_labels.len # Len(args.list_trajs)
              /\ ~args.default_coloring)
       => (pc = "raised" /\ exc.type = "AssertionError" /\ ax = <<>>)
    /\ (exc.type = "AssertionError" /\ args.default_coloring)
       => exc.line \in {51, 55}

C4_Witness ==
    /\ pc = "raised"
    /\ args.default_coloring
    /\ Len(args.list_trajs) > args.traj_colors
    /\ args.point_labels.given
    /\ args.point_labels.len # args.list_points
    /\ args.list_points <= args.point_colors
    /\ exc = Raise("AssertionError", 55)

\* C5: a call that returns has rendered a legend iff trajectory labels or
\* point labels were supplied; the last legend call is then the one below the
\* plot with two columns and no trajectory, heading or point is drawn after a
\* legend call; one 2-component trajectory and one point with the default two
\* colours each and no labels never raises and ends without a legend.
C5_Legend ==
    /\ pc = "returned" =>
        /\ (OpsAt("legend_below_ncol2") # {})
            <=> (args.traj_labels.given \/ args.point_labels.given)
        /\ (OpsAt("legend") # {}) <=> (OpsAt("legend_below_ncol2") # {})
        /\ \A k \in OpsAt("legend") : \A m \in OpsAt("legend_below_ncol2") : k < m
        /\ \A k \in OpsAt("legend") \cup OpsAt("legend_below_ncol2") :
              \A d \in DrawingsAt : d < k
        /\ Cardinality({k \in DrawingsAt : ax[k].op = "plot"})
              = Len(args.list_trajs) + args.list_points
    /\ (/\ Len(args.list_trajs) = 1
        /\ args.list_trajs[1].ncomp = 2
        /\ args.list_points = 1
        /\ args.traj_colors = 2
        /\ args.point_colors = 2
        /\ args.traj_labels = NoneList
        /\ args.point_labels = NoneList
        /\ args.traj_alphas = NoneList
        /\ args.point_alphas = NoneList)
       => /\ pc # "raised"
          /\ OpsAt("legend") \cup OpsAt("legend_below_ncol2") = {}

C5_Witness ==
    /\ pc = "returned"
    /\ args.traj_labels = NoneList
    /\ args.point_labels.given
    /\ Len(args.list_trajs) = 2
    /\ args.list_points = 1
    /\ ax[Len(ax) - 1].op = "legend_below_ncol2"

\* C6 (as claimed): every call whose asserts pass ends by returning, with
\* set_aspect("equal", "box") the last operation on the surface.  The alphas
\* are left at None, so that no failure is due to a short alpha list, which
\* the asserts do not cover.
C6_AlwaysEqualAspect ==
    (/\ Ended
     /\ FailedAssert(args) = 0
     /\ args.traj_alphas = NoneList
     /\ args.point_alphas = NoneList)
    => (/\ pc = "returned"
        /\ Len(ax) > 0
        /\ ax[Len(ax)].op = "set_aspect_equal_box")

\* C8 (as claimed): once the loop is past trajectory k, the operation after
\* its line is its heading indicator, at the indices 0, q, 2q, ... and in the
\* colour scaled by one half, if the trajectory has 4 components and
\* quiver_freq > 0, and no heading indicator otherwise; the heading step
\* (lines 81-90) never raises.
PastTraj(k) == ~(pc \in {"traj", "quiver"} /\ i = k)

LineOf(k) == {p \in OpsAt("plot") : ax[p].kind = "traj" /\ ax[p].idx = k}

C8_HeadingIndicators ==
    /\ \A k \in 0..(Len(args.list_trajs) - 1) : \A p \in LineOf(k) :
          PastTraj(k) =>
            IF args.list_trajs[k + 1].ncomp = 4 /\ args.quiver_freq > 0
            THEN /\ p < Len(ax)
                 /\ ax[p + 1].op = "quiver"
                 /\ ax[p + 1].idx = k
                 /\ ax[p + 1].scale = 1
                 /\ \A n \in 0..(Horizon - 1) :
                      (n % args.quiver_freq = 0)
                      <=> (\E m \in DOMAIN ax[p + 1].at : ax[p + 1].at[m] = n)
            ELSE p = Len(ax) \/ ax[p + 1].op # "quiver"
    /\ ~(exc.line \in 81..90)

---------------------------------------------------------------------------
\* Properties of mask_to_img

\* The colour of pixel p (0-based, row-major) of an (h, w, 3) image.
PixelColour(img, p) == [c \in 1..Channels |-> img.data[p * Channels + c]]

\* The colour of pixel (r, c) of a channel-first (.., 3, h, w) image.
PlaneColour(img, r, c) ==
    LET h == img.shape[Len(img.shape) - 1]
        w == img.shape[Len(img.shape)]
    IN  [ch \in 1..Channels |-> img.data[((ch - 1) * h + r) * w + c + 1]]

White == [c \in 1..Channels |-> One]

Scaled(colour, gain) == [c \in 1..Channels |-> colour[c] * gain]

NumMasks == Len(args.masks)

GridShape == args.masks[1].segmentation.shape

\* The masks (positions of the argument list) covering pixel p.
Covering(p) == {k \in 1..NumMasks : args.masks[k].segmentation.data[p + 1]}

\* The covering mask drawn last by a stable sort on descending area: of
\* smallest area, and the later of the list among equal areas.
Winner(p) ==
    CHOOSE k \in Covering(p) :
        \A j \in Covering(p) :
            \/ args.masks[j].area > args.masks[k].area
            \/ args.masks[j].area = args.masks[k].area /\ j <= k

\* The turn at which mask k of the argument list is painted.
Rank(k) ==
    1 + Cardinality({j \in 1..NumMasks : args.masks[j].area > args.masks[k].area})
      + Cardinality({j \in 1..(k - 1) : args.masks[j].area = args.masks[k].area})

\* The canvas is fully composited and not yet resized (between lines 136
\* and 138).
Composited == pc = "paint" /\ i = Len(sorted_anns)

\* What C2 claims of the returned ResizeTo x ResizeTo image, its pixel
\* colours read by ColourAt: at most len(masks) distinct non-white colours,
\* and at every location lying over a covered grid pixel the colour drawn
\* for the smallest covering mask.
ImageShowsMasks(ColourAt(_, _)) ==
    LET gain == 4 * ResizeTo * ResizeTo
        at == (0..(ResizeTo - 1)) \X (0..(ResizeTo - 1))
        src(rc) == ((rc[1] * GridShape[1]) \div ResizeTo) * GridShape[2]
                   + ((rc[2] * GridShape[2]) \div ResizeTo)
    IN  /\ Cardinality({ColourAt(rc[1], rc[2]) : rc \in at}
                       \ {Scaled(White, gain)}) <= NumMasks
        /\ \A rc \in at :
              Covering(src(rc)) # {} =>
                  ColourAt(rc[1], rc[2])
                      = Scaled(drawn[Rank(Winner(src(rc)))], gain)

\* The returned tensor's pixel (r, c) read channel-first, as its shape says.
ReturnedPlaneColour(r, c) == PlaneColour(mask_img, r, c)

\* The returned tensor's pixel (r, c) read in the order the elements lie in
\* memory, which is the resized canvas's (row, column, channel) order.
ReturnedMemoryColour(r, c) == PixelColour(mask_img, r * ResizeTo + c)

\* C2 (as claimed): the image mask_to_img returns shows the masks' colours,
\* under one reading of its pixels or the other.
C2_ReturnedImageColours ==
    pc = "returned" =>
        \/ ImageShowsMasks(ReturnedPlaneColour)
        \/ ImageShowsMasks(ReturnedMemoryColour)

\* C2 (amended): the canvas composited before the resize holds at most
\* len(masks) distinct non-white colours; an uncovered pixel is white and a
\* covered pixel has the colour drawn for a covering mask of smallest area,
\* the later of the list among covering masks of equal area.
C2_CompositedCanvasColours ==
    Composited =>
        LET pixels == 0..(GridShape[1] * GridShape[2] - 1)
        IN  /\ Cardinality({PixelColour(mask_img, p) : p \in pixels} \ {White})
                  <= NumMasks
            /\ \A p \in pixels :
                  IF Covering(p) = {}
                  THEN PixelColour(mask_img, p) = White
                  ELSE /\ PixelColour(mask_img, p) = drawn[Rank(Winner(p))]
                       /\ \A j \in Covering(p) :
                             args.masks[Winner(p)].area <= args.masks[j].area

\* A smaller mask lies inside a larger one and the two were drawn in
\* different colours.
C2_Witness ==
    /\ Composited
    /\ NumMasks = 2
    /\ args.masks[1].area < args.masks[2].area
    /\ Covering(0) = {1, 2}
    /\ drawn[1] # drawn[2]
    /\ PixelColour(mask_img, 0) = drawn[2]

\* C7: the returned tensor is float32 of shape (1, 3, ResizeTo, ResizeTo),
\* ResizeTo standing for the 256 of line 138, whatever the grid's height and
\* width.
C7_OutputShape ==
    pc = "returned" =>
        /\ mask_img.shape = <<1, Channels, ResizeTo, ResizeTo>>
        /\ mask_img.dtype = "float32"
        /\ Len(mask_img.data) = Channels * ResizeTo * ResizeTo

C7_Witness ==
    /\ pc = "returned"
    /\ GridShape[1] # ResizeTo
    /\ GridShape[1] # GridShape[2]
    /\ mask_img.shape = <<1, Channels, ResizeTo, ResizeTo>>

\* C10 (as claimed): line 139 turns the (256, 256, 3) canvas into a
\* (3, 256, 256) array with the same elements in the same flat order, and
\* element [c][i][j] of the result is channel c of canvas pixel (i, j).
C10_ChannelFirstKeepsPixels ==
    [][(pc = "resized" /\ pc' = "reshaped") =>
          /\ mask_img'.shape = <<Channels, ResizeTo, ResizeTo>>
          /\ mask_img'.data = mask_img.data
          /\ \A c \in 0..(Channels - 1) :
               \A r \in 0..(ResizeTo - 1) : \A q \in 0..(ResizeTo - 1) :
                  mask_img'.data[(c * ResizeTo + r) * ResizeTo + q + 1]
                      = At3(mask_img, r, q, c)]_vars

---------------------------------------------------------------------------
\* Properties of visualize_sam_maps

\* The indices of the effects of the given kind, in order.
RECURSIVE IndicesOf(_, _)
IndicesOf(seq, ev) ==
    IF seq = <<>> THEN <<>>
    ELSE (IF Head(seq).ev = ev THEN <<Head(seq).idx>> ELSE <<>>)
         \o IndicesOf(Tail(seq), ev)

\* The effects of the given kinds, in order.
RECURSIVE Only(_, _)
Only(seq, evs) ==
    IF seq = <<>> THEN <<>>
    ELSE (IF Head(seq).ev \in evs THEN <<Head(seq)>> ELSE <<>>)
         \o Only(Tail(seq), evs)

\* C9 (as claimed): a call with stride viz_freq >= 1 over n pairs ends
\* having saved a figure exactly for the indices 0, N, 2N, ... below n, in
\* that order; each save is followed by one wandb.log with commit=False
\* carrying all images saved so far, and then by one progress line.
C9_EveryNthPairLogged ==
    (pc \in {"returned", "raised"} /\ args.viz_freq >= 1) =>
        LET N == args.viz_freq
            count == (Pairs + N - 1) \div N
            out == Only(io, {"savefig", "log", "print"})
        IN  /\ IndicesOf(io, "savefig") = [k \in 1..count |-> (k - 1) * N]
            /\ Len(out) = 3 * count
            /\ \A k \in 1..count :
                  /\ out[3 * k - 2].ev = "savefig"
                  /\ out[3 * k - 1].ev = "log"
                  /\ out[3 * k - 1].commit = FALSE
                  /\ out[3 * k - 1].images = [m \in 1..k |-> (m - 1) * N]
                  /\ out[3 * k].ev = "print"
                  /\ out[3 * k].idx = (k - 1) * N

\* What C9 claims holds of every call that does not end in a NameError.
C9_HoldsWhenNamesBound == exc.type = "NameError" \/ C9_EveryNthPairLogged

\* What C8 claims holds of every call that does not end in a NameError.
C8_HoldsWhenNamesBound == exc.type = "NameError" \/ C8_HeadingIndicators

====
